---- MODULE Spec2Model ----
(***************************************************************************)
(* Antimeridian splitting of polygons (nccos-smt/split_polygons.py).       *)
(*                                                                         *)
(* Longitudes are whole degrees.  A ring is the sequence of the longitudes *)
(* of its vertices, closing vertex included; the latitudes play no part in *)
(* any decision of the code (they are only carried along), so they are not *)
(* represented.  A polygon is the sequence of its rings, shell first; a    *)
(* geometry collection or multipolygon is a sequence of polygons.          *)
(***************************************************************************)
EXTENDS Integers, Sequences, FiniteSets, TLC

VARIABLES
    entry,          \* the function the caller invoked: "splitter" | "split_polygon"
    validate,       \* split_polygon's validate argument
    geometry,       \* the argument: [tag, polys]
    pc,             \* position of the call
    idx,            \* split_multipolygon: index of the next constituent polygon
    split_result,   \* split_multipolygon's split_result / splitter's _split
    frame,          \* locals of the latest split_polygon call
    transformed,    \* wrap_polygons' candidate
    result,         \* what the invoked function returned
    err,            \* the exception that left the call, or "none"
    run,            \* 1: first call, 2: the caller fed the result back in
    first           \* the first call's argument and result, kept by the caller

vars == <<entry, validate, geometry, pc, idx, split_result, frame,
          transformed, result, err, run, first>>

----------------------------------------------------------------------------
(* Bounds of the model *)

\* most vertices of a freely chosen ring (the closing vertex not counted)
MaxVerts == 4
\* most holes of an input polygon
MaxHoles == 1
\* most constituent polygons of an input multipolygon
MaxPolys == 2

\* longitudes the inputs are drawn from: inside the valid range ...
LonsIn == {-180, -170, 10, 170, 180}
\* ... and one outside it
Lons == LonsIn \cup {200}

----------------------------------------------------------------------------
(* Sequences and numbers *)

Abs(x) == IF x < 0 THEN -x ELSE x

Range(s) == {s[i] : i \in DOMAIN s}

SetMin(S) == CHOOSE x \in S : \A y \in S : x <= y

SetMax(S) == CHOOSE x \in S : \A y \in S : x >= y

\* math.copysign(1, d)
copysign1(d) == IF d < 0 THEN -1 ELSE 1

----------------------------------------------------------------------------
(* The geometry engine: bounds and translation *)

\* polygon.bounds, longitudes only: the envelope of the shell
bounds(polygon) ==
    [minx |-> SetMin(Range(polygon[1])), maxx |-> SetMax(Range(polygon[1]))]

\* geometry_collection.bounds, longitudes only
collection_bounds(geoms) ==
    [minx |-> SetMin({bounds(geoms[i]).minx : i \in DOMAIN geoms}),
     maxx |-> SetMax({bounds(geoms[i]).maxx : i \in DOMAIN geoms})]

\* affinity.translate(polygon, xoff = xoff)
translate(polygon, xoff) ==
    [r \in DOMAIN polygon |-> [i \in DOMAIN polygon[r] |-> polygon[r][i] + xoff]]

----------------------------------------------------------------------------
(* check_crossing *)

dlon_threshold == 180

\* the validation of check_crossing: does it raise ValueError
check_crossing_raises(lon1, lon2, val) ==
    val /\ (Abs(lon1) > 180 \/ Abs(lon2) > 180)

\* the value check_crossing returns when it does not raise
check_crossing(lon1, lon2) == Abs(lon2 - lon1) > dlon_threshold

----------------------------------------------------------------------------
(* split_polygon: the loop over the vertices of one ring.  ring holds the   *)
(* original longitudes, st.ring the already rewritten prefix of            *)
(* coords_shift[ring_index]: lon is read from the original vertex, lon_prev *)
(* from the rewritten one.                                                 *)

RECURSIVE CoordLoop(_, _, _, _)
CoordLoop(ring, coord_index, st, val) ==
    IF coord_index > Len(ring) THEN st
    ELSE LET lon == ring[coord_index]
             lon_prev == st.ring[coord_index - 1]
         IN  IF check_crossing_raises(lon, lon_prev, val)
             THEN [st EXCEPT !.raised = TRUE]
             ELSE LET crossed == check_crossing(lon, lon_prev)
                      direction == copysign1(lon - lon_prev)
                      x_shift == IF crossed THEN lon - (direction * 360) ELSE lon
                  IN  CoordLoop(ring, coord_index + 1,
                        [ring |-> Append(st.ring, x_shift),
                         ring_minx |-> IF x_shift < st.ring_minx THEN x_shift
                                       ELSE st.ring_minx,
                         ring_maxx |-> IF x_shift > st.ring_maxx THEN x_shift
                                       ELSE st.ring_maxx,
                         crossings |-> st.crossings + (IF crossed THEN 1 ELSE 0),
                         raised |-> FALSE], val)

\* one ring unwrapped: its rewritten longitudes, running bounds, crossing count
NormalizeRing(ring, val) ==
    CoordLoop(ring, 2,
        [ring |-> <<ring[1]>>, ring_minx |-> ring[1], ring_maxx |-> ring[1],
         crossings |-> 0, raised |-> FALSE], val)

\* the hole alignment: the offset applied to a ring with the given bounds
AlignOffset(ring_index, ring_minx, ring_maxx, shell_minx, shell_maxx) ==
    IF ring_index = 1 THEN 0
    ELSE IF ring_minx < shell_minx THEN 360
    ELSE IF ring_maxx > shell_maxx THEN -360
    ELSE 0

\* AlignRing moving the vertices and leaving the recorded bounds behind
AlignRingStaleBounds(n, xoff) ==
    [ring |-> [i \in DOMAIN n.ring |-> n.ring[i] + xoff],
     ring_minx |-> n.ring_minx,
     ring_maxx |-> n.ring_maxx,
     crossings |-> n.crossings,
     xoff |-> xoff]

\* the ring as it stands after the alignment: vertices and recorded bounds
AlignRing(n, xoff) ==
    [ring |-> [i \in DOMAIN n.ring |-> n.ring[i] + xoff],
     ring_minx |-> n.ring_minx + xoff,
     ring_maxx |-> n.ring_maxx + xoff,
     crossings |-> n.crossings,
     xoff |-> xoff]

\* the meridians one ring adds to split_meridians
RingMeridians(r) ==
    IF r.crossings > 0
    THEN (IF r.ring_minx < -180 THEN {-180} ELSE {})
         \cup (IF r.ring_maxx > 180 THEN {180} ELSE {})
    ELSE {}

\* the loop over the rings; st = [rings, shell_minx, shell_maxx,
\* split_meridians, raised]
RECURSIVE RingLoop(_, _, _, _)
RingLoop(coords, ring_index, st, val) ==
    IF ring_index > Len(coords) THEN st
    ELSE LET n == NormalizeRing(coords[ring_index], val)
         IN  IF n.raised THEN [st EXCEPT !.raised = TRUE]
             ELSE LET shell_minx == IF ring_index = 1 THEN n.ring_minx ELSE st.shell_minx
                      shell_maxx == IF ring_index = 1 THEN n.ring_maxx ELSE st.shell_maxx
                      xoff == AlignOffset(ring_index, n.ring_minx, n.ring_maxx,
                                          shell_minx, shell_maxx)
                      r == AlignRing(n, xoff)
                  IN  RingLoop(coords, ring_index + 1,
                        [rings |-> Append(st.rings, r),
                         shell_minx |-> shell_minx,
                         shell_maxx |-> shell_maxx,
                         split_meridians |-> st.split_meridians \cup RingMeridians(r),
                         raised |-> FALSE], val)

\* split_polygon up to the decision on the meridians
Normalize(polygon, val) ==
    RingLoop(polygon, 1,
        [rings |-> <<>>, shell_minx |-> 0, shell_maxx |-> 0,
         split_meridians |-> {}, raised |-> FALSE], val)

\* coords_shift once the loop is over
coords_shift(norm) == [i \in DOMAIN norm.rings |-> norm.rings[i].ring]

----------------------------------------------------------------------------
(* The geometry engine: ops.split of a polygon by a meridian.  The polygon  *)
(* handed over is Polygon(shell, holes) in unwrapped longitudes.  A         *)
(* meridian that does not pass through the inside of the shell cuts        *)
(* nothing: the collection holds the polygon alone.  Otherwise the part    *)
(* west of the meridian and the part east of it are returned; a hole that  *)
(* lies on one side stays a hole of that part, a hole the meridian passes  *)
(* through becomes a notch in the boundary of both parts.  This is exact   *)
(* for rings that meet a meridian in one stretch (x-monotone rings, see     *)
(* WellFormed); the order of the parts is the engine's, and either order   *)
(* is allowed here.                                                        *)

\* LinearRing closes a ring whose last vertex is not its first
Closed(ring) == IF ring[1] = ring[Len(ring)] THEN ring ELSE Append(ring, ring[1])

OnSide(x, m, side) == IF side = "west" THEN x < m ELSE x > m

\* the vertices of the ring strictly on the side, in ring order, as one stretch
SideRun(ring, m, side) ==
    LET c == Closed(ring)
        o == SubSeq(c, 1, Len(c) - 1)
        offs == {k \in DOMAIN o : ~OnSide(o[k], m, side)}
    IN  IF offs = {} THEN o
        ELSE LET k == SetMin(offs)
                 rot == SubSeq(o, k, Len(o)) \o SubSeq(o, 1, k - 1)
             IN  SelectSeq(rot, LAMBDA x : OnSide(x, m, side))

Straddles(ring, m) == SetMin(Range(ring)) < m /\ m < SetMax(Range(ring))

\* is the hole a hole of the part on that side
HoleOnSide(ring, m, side) ==
    IF side = "west" THEN SetMax(Range(ring)) <= m
    ELSE SetMin(Range(ring)) >= m /\ ~(SetMax(Range(ring)) <= m)

\* the notches the holes h..Len(polygon) cut into the part's boundary
RECURSIVE Notches(_, _, _, _)
Notches(polygon, h, m, side) ==
    IF h > Len(polygon) THEN <<>>
    ELSE (IF Straddles(polygon[h], m)
          THEN <<m>> \o SideRun(polygon[h], m, side) \o <<m>>
          ELSE <<>>) \o Notches(polygon, h + 1, m, side)

\* the holes h..Len(polygon) that stay holes of the part
RECURSIVE SideHoles(_, _, _, _)
SideHoles(polygon, h, m, side) ==
    IF h > Len(polygon) THEN <<>>
    ELSE (IF HoleOnSide(polygon[h], m, side) THEN <<polygon[h]>> ELSE <<>>)
         \o SideHoles(polygon, h + 1, m, side)

\* the part of the polygon on one side of the meridian
SidePolygon(polygon, m, side) ==
    << <<m>> \o SideRun(polygon[1], m, side) \o <<m>>
        \o Notches(polygon, 2, m, side) \o <<m>> >>
    \o SideHoles(polygon, 2, m, side)

\* ops.split(Polygon(shell, holes), LineString(meridian)): the collections
\* the engine may return
ops_split(polygon, m) ==
    IF ~Straddles(polygon[1], m) THEN {<<polygon>>}
    ELSE LET w == SidePolygon(polygon, m, "west")
             e == SidePolygon(polygon, m, "east")
         IN  {<<w, e>>, <<e, w>>}

----------------------------------------------------------------------------
(* translate_polygons *)

\* translate_polygon without its first branch: a fragment west of -180 is
\* left where it is
translate_polygon_east_only(polygon) ==
    IF bounds(polygon).maxx > 180 THEN translate(polygon, -360) ELSE polygon

\* translate_polygon without its second branch: a fragment east of +180 is
\* left where it is
translate_polygon_west_only(polygon) ==
    IF bounds(polygon).minx < -180 THEN translate(polygon, 360) ELSE polygon

\* what translate_polygons yields for one polygon
translate_polygon(polygon) ==
    LET b == bounds(polygon)
    IN  IF b.minx < -180 THEN translate(polygon, 360)
        ELSE IF b.maxx > 180 THEN translate(polygon, -360)
        ELSE polygon

translate_polygons(geometry_collection) ==
    [i \in DOMAIN geometry_collection |-> translate_polygon(geometry_collection[i])]

----------------------------------------------------------------------------
(* split_polygon *)

\* the meridian line built for split_lon
MeridianLine(split_lon) == << <<split_lon, -90>>, <<split_lon, 90>> >>

\* TooManyMeridians with the limit off by one: two meridians are let through
TooManyMeridiansOffByOne(split_meridians) == Cardinality(split_meridians) > 2

\* does split_polygon raise NotImplementedError
TooManyMeridians(split_meridians) == Cardinality(split_meridians) > 1

\* PolygonCoords taking coords_shift whether or not a line was built
PolygonCoordsShifted(_polygon, norm, n_splits) == coords_shift(norm)

\* the rings handed to Polygon(shell, holes): coords_shift if a splitting
\* line was built, the input's own coordinates otherwise
PolygonCoords(_polygon, norm, n_splits) ==
    IF n_splits = 1 THEN coords_shift(norm) ELSE _polygon

\* the outcomes of split_polygon(_polygon, validate = val): the exception
\* that leaves it ("none": it returns geo_polygons) and its locals
split_polygon(_polygon, val) ==
    LET norm == Normalize(_polygon, val)
        none == [_polygon |-> _polygon, norm |-> norm, splitter |-> <<>>,
                 split_polygons |-> <<>>, geo_polygons |-> <<>>]
    IN  IF norm.raised
        THEN {[none EXCEPT !.norm = [norm EXCEPT !.rings = <<>>]]
                @@ [exc |-> "ValueError"]}
        ELSE IF TooManyMeridians(norm.split_meridians)
        THEN {none @@ [exc |-> "NotImplementedError"]}
        ELSE LET n_splits == Cardinality(norm.split_meridians)
                 coords == PolygonCoords(_polygon, norm, n_splits)
                 split_lon == CHOOSE m \in norm.split_meridians : TRUE
                 pieces == IF n_splits = 1 THEN ops_split(coords, split_lon)
                           ELSE {<<coords>>}
             IN  {[exc |-> "none", _polygon |-> _polygon, norm |-> norm,
                   splitter |-> IF n_splits = 1 THEN MeridianLine(split_lon) ELSE <<>>,
                   split_polygons |-> sp,
                   geo_polygons |-> translate_polygons(sp)] : sp \in pieces}

----------------------------------------------------------------------------
(* wrap_polygons *)

\* what the loop appends to transformed for one polygon
wrap_polygon(_polygon) ==
    IF bounds(_polygon).minx < 0 THEN translate(_polygon, 360) ELSE _polygon

\* the candidate collection
wrap_candidate(geometry_collection) ==
    [i \in DOMAIN geometry_collection |-> wrap_polygon(geometry_collection[i])]

\* maxx - minx of a collection
bounds_difference(geoms) ==
    collection_bounds(geoms).maxx - collection_bounds(geoms).minx

\* wrap_keeps_candidate with <= for <
wrap_keeps_candidate_le(transformed_difference, initial_difference) ==
    transformed_difference <= initial_difference

\* the decision: is the candidate returned
wrap_keeps_candidate(transformed_difference, initial_difference) ==
    transformed_difference < initial_difference

wrap_polygons(geometry_collection) ==
    LET cand == wrap_candidate(geometry_collection)
    IN  IF wrap_keeps_candidate(bounds_difference(cand),
                                bounds_difference(geometry_collection))
        THEN cand ELSE geometry_collection

----------------------------------------------------------------------------
(* The inputs *)

\* every longitude of the polygon
AllLons(polygon) == UNION {Range(polygon[r]) : r \in DOMAIN polygon}

\* all longitudes of the polygon lie in [lo, hi]
LonsWithin(polygon, lo, hi) == \A x \in AllLons(polygon) : lo <= x /\ x <= hi

InRange(polygon) == LonsWithin(polygon, -180, 180)

\* the closed rings of n vertices over a set of longitudes
Rings(n, lons) == {Append(s, s[1]) : s \in [1..n -> lons]}

\* freely chosen rings: any closed ring of 3..MaxVerts vertices that do not
\* all lie on one meridian of the globe
FreeRings ==
    {r \in UNION {Rings(n, Lons) : n \in 3..MaxVerts} :
        Cardinality({x % 360 : x \in Range(r)}) > 1}

\* the ring of a box between two meridians, as in split_polygon's docstring
BoxRings == {<<a, b, b, a, a>> : a, b \in LonsIn} \ {<<a, a, a, a, a>> : a \in LonsIn}

\* a four-cornered ring with a vertex between its two ends
KiteRings ==
    {k \in {<<a, b, c, b, a>> : a, b, c \in LonsIn} :
        (k[1] < k[2] /\ k[2] < k[3]) \/ (k[3] < k[2] /\ k[2] < k[1])}

\* the sequences of 1..n elements of S
SeqsUpTo(S, n) == UNION {[1..k -> S] : k \in 1..n}

\* polygons of one freely chosen ring, and polygons with holes
InputPolygons ==
    {<<r>> : r \in FreeRings}
    \cup {<<shell>> \o holes : shell \in BoxRings \cup KiteRings,
                               holes \in SeqsUpTo(BoxRings, MaxHoles)}

InputMultiPolygons == SeqsUpTo({<<r>> : r \in BoxRings}, MaxPolys)

\* geometry types splitter knows nothing of
OtherTags == {"Point", "LineString", "GeometryCollection"}

\* The docstring's assumptions on a polygon that is cut: in unwrapped
\* longitudes every ring closes, spans less than 360 degrees, meets a
\* meridian in one stretch, and every hole lies within the shell's span.
Turns(ring) ==
    LET o == SubSeq(ring, 1, Len(ring) - 1)
        nz == SelectSeq([i \in DOMAIN o |-> ring[i + 1] - ring[i]], LAMBDA d : d # 0)
        sgn == [i \in DOMAIN nz |-> copysign1(nz[i])]
    IN  Cardinality({i \in DOMAIN sgn : sgn[i] # sgn[(i % Len(sgn)) + 1]})

WellFormedRing(ring) ==
    /\ ring[1] = ring[Len(ring)]
    /\ SetMax(Range(ring)) - SetMin(Range(ring)) < 360
    /\ Turns(ring) <= 2

WellFormed(polygon) ==
    /\ \A r \in DOMAIN polygon : WellFormedRing(polygon[r])
    /\ \A r \in DOMAIN polygon :
          /\ SetMin(Range(polygon[r])) >= SetMin(Range(polygon[1]))
          /\ SetMax(Range(polygon[r])) <= SetMax(Range(polygon[1]))

\* the geometry engine's cut is determined for the polygon: split_polygon
\* builds no splitting line for it, or the polygon it cuts is well formed
SplitDetermined(polygon) ==
    LET norm == Normalize(polygon, FALSE)
    IN  Cardinality(norm.split_meridians) = 1 => WellFormed(coords_shift(norm))

NoFrame == [exc |-> "none", _polygon |-> <<>>,
            norm |-> [rings |-> <<>>, shell_minx |-> 0, shell_maxx |-> 0,
                      split_meridians |-> {}, raised |-> FALSE],
            splitter |-> <<>>, split_polygons |-> <<>>, geo_polygons |-> <<>>]

NoFirst == [geometry |-> <<>>, result |-> <<>>]

Init ==
    /\ \/ /\ entry = "split_polygon"
          /\ validate \in BOOLEAN
          /\ \E p \in InputPolygons :
                /\ SplitDetermined(p)
                /\ geometry = [tag |-> "Polygon", polys |-> <<p>>]
       \/ /\ entry = "splitter"
          /\ validate = FALSE
          /\ \/ \E p \in InputPolygons :
                   /\ SplitDetermined(p)
                   /\ geometry = [tag |-> "Polygon", polys |-> <<p>>]
             \/ \E mp \in InputMultiPolygons :
                   /\ \A i \in DOMAIN mp : SplitDetermined(mp[i])
                   /\ geometry = [tag |-> "MultiPolygon", polys |-> mp]
             \/ \E t \in OtherTags : geometry = [tag |-> t, polys |-> <<>>]
    /\ pc = entry
    /\ idx = 1
    /\ split_result = <<>>
    /\ frame = NoFrame
    /\ transformed = <<>>
    /\ result = <<>>
    /\ err = "none"
    /\ run = 1
    /\ first = NoFirst

----------------------------------------------------------------------------
(* The calls *)

\* the caller invokes split_polygon(polygon, validate) and it returns
SplitPolygonReturns ==
    /\ pc = "split_polygon"
    /\ \E out \in split_polygon(geometry.polys[1], validate) :
          /\ out.exc = "none"
          /\ frame' = out
          /\ result' = out.geo_polygons
    /\ pc' = "done"
    /\ UNCHANGED <<entry, validate, geometry, idx, split_result, transformed,
                   err, run, first>>

\* the caller invokes split_polygon(polygon, validate) and it raises
SplitPolygonRaises ==
    /\ pc = "split_polygon"
    /\ \E out \in split_polygon(geometry.polys[1], validate) :
          /\ out.exc # "none"
          /\ frame' = out
          /\ err' = out.exc
    /\ pc' = "raised"
    /\ UNCHANGED <<entry, validate, geometry, idx, split_result, transformed,
                   result, run, first>>

\* splitter on a Polygon: _split = split_polygon(geometry_collection)
SplitterPolygon ==
    /\ pc = "splitter"
    /\ geometry.tag = "Polygon"
    /\ \E out \in split_polygon(geometry.polys[1], FALSE) :
          /\ frame' = out
          /\ IF out.exc = "none"
             THEN /\ split_result' = out.geo_polygons
                  /\ pc' = "wrap_polygons"
                  /\ err' = err
             ELSE /\ split_result' = split_result
                  /\ pc' = "raised"
                  /\ err' = out.exc
    /\ UNCHANGED <<entry, validate, geometry, idx, transformed, result, run, first>>

\* splitter on a MultiPolygon enters split_multipolygon
SplitterMultiPolygon ==
    /\ pc = "splitter"
    /\ geometry.tag = "MultiPolygon"
    /\ pc' = "split_multipolygon"
    /\ idx' = 1
    /\ split_result' = <<>>
    /\ UNCHANGED <<entry, validate, geometry, frame, transformed, result, err,
                   run, first>>

\* splitter on anything else: neither branch binds _split, and reading it
\* for the call of wrap_polygons raises UnboundLocalError
SplitterOther ==
    /\ pc = "splitter"
    /\ geometry.tag \notin {"Polygon", "MultiPolygon"}
    /\ pc' = "raised"
    /\ err' = "UnboundLocalError"
    /\ UNCHANGED <<entry, validate, geometry, idx, split_result, frame,
                   transformed, result, run, first>>

\* one turn of split_multipolygon's loop; after the last polygon it returns
\* MultiPolygon(split_result) to splitter
SplitMultiPolygonStep ==
    /\ pc = "split_multipolygon"
    /\ idx <= Len(geometry.polys)
    /\ \E out \in split_polygon(geometry.polys[idx], FALSE) :
          /\ frame' = out
          /\ IF out.exc = "none"
             THEN /\ split_result' = split_result \o out.geo_polygons
                  /\ idx' = idx + 1
                  /\ pc' = IF idx = Len(geometry.polys) THEN "wrap_polygons"
                           ELSE "split_multipolygon"
                  /\ err' = err
             ELSE /\ split_result' = split_result
                  /\ idx' = idx
                  /\ pc' = "raised"
                  /\ err' = out.exc
    /\ UNCHANGED <<entry, validate, geometry, transformed, result, run, first>>

\* result = wrap_polygons(_split); return result
WrapPolygons ==
    /\ pc = "wrap_polygons"
    /\ transformed' = wrap_candidate(split_result)
    /\ result' = wrap_polygons(split_result)
    /\ pc' = "done"
    /\ UNCHANGED <<entry, validate, geometry, idx, split_result, frame, err,
                   run, first>>

\* the caller, having given splitter a geometry with longitudes in
\* [-180,180], runs splitter again on what the first run returned
Resubmit ==
    /\ pc = "done"
    /\ entry = "splitter"
    /\ run = 1
    /\ \A i \in DOMAIN geometry.polys : InRange(geometry.polys[i])
    /\ first' = [geometry |-> geometry, result |-> result]
    /\ geometry' = [tag |-> "MultiPolygon", polys |-> result]
    /\ run' = 2
    /\ pc' = "splitter"
    /\ idx' = 1
    /\ split_result' = <<>>
    /\ frame' = NoFrame
    /\ transformed' = <<>>
    /\ result' = <<>>
    /\ UNCHANGED <<entry, validate, err>>

Next ==
    \/ SplitPolygonReturns
    \/ SplitPolygonRaises
    \/ SplitterPolygon
    \/ SplitterMultiPolygon
    \/ SplitterOther
    \/ SplitMultiPolygonStep
    \/ WrapPolygons
    \/ Resubmit

Spec == Init /\ [][Next]_vars

----------------------------------------------------------------------------
(* Vocabulary of the properties *)

\* some ring has two consecutive vertices more than 180 degrees apart
HasCrossing(polygon) ==
    \E r \in DOMAIN polygon : \E i \in 1..(Len(polygon[r]) - 1) :
        check_crossing(polygon[r][i], polygon[r][i + 1])

\* a split_polygon call has been made and has returned
Returned == frame._polygon # <<>> /\ frame.exc = "none"

\* a split_polygon call has been made and its loop over the rings ran through
Looped == frame._polygon # <<>> /\ frame.exc # "ValueError"

\* a polygon that is cut satisfies the assumptions under which the cut is known
SplitAssumptions == frame.splitter # <<>> => WellFormed(coords_shift(frame.norm))

----------------------------------------------------------------------------
\* C1: whenever split_polygon returns for a polygon whose longitudes all lie
\* in [-180,180], every returned fragment has its longitude bounds inside
\* [-180,180], and the i-th returned fragment is the i-th fragment of the
\* split, left alone or translated by 360 degrees either way.
C1_FragmentsInRange ==
    (Returned /\ InRange(frame._polygon)) =>
        /\ Len(frame.geo_polygons) = Len(frame.split_polygons)
        /\ \A i \in DOMAIN frame.geo_polygons :
              /\ bounds(frame.geo_polygons[i]).minx >= -180
              /\ bounds(frame.geo_polygons[i]).maxx <= 180
              /\ frame.geo_polygons[i] \in
                    {translate(frame.split_polygons[i], k) : k \in {-360, 0, 360}}
        /\ (entry = "split_polygon" /\ pc = "done") => result = frame.geo_polygons

\* C1's case: an in-range polygon with a hole was cut in two and a fragment
\* was brought back into range
C1_Witness ==
    /\ Returned /\ InRange(frame._polygon)
    /\ Len(frame._polygon) > 1
    /\ Len(frame.split_polygons) = 2
    /\ \E i \in DOMAIN frame.geo_polygons :
          frame.geo_polygons[i] # frame.split_polygons[i]

\* C2: whenever split_polygon returns for a polygon whose longitudes all lie
\* in [-180,180], no ring of a returned fragment has two consecutive
\* vertices more than 180 degrees apart.  Stated here for the polygons
\* that also meet the docstring's assumptions (unwrapped, every ring closes,
\* spans less than 360 degrees and lies within the shell's span).
C2_AntimeridianSafe ==
    (Returned /\ InRange(frame._polygon) /\ WellFormed(coords_shift(frame.norm))) =>
        \A i \in DOMAIN frame.geo_polygons : ~HasCrossing(frame.geo_polygons[i])

C4_Marks ==
    {m \in {-180, 180} :
        \E r \in DOMAIN frame.norm.rings :
            /\ frame.norm.rings[r].crossings > 0
            /\ \/ m = -180 /\ frame.norm.rings[r].ring_minx < -180
               \/ m = 180 /\ frame.norm.rings[r].ring_maxx > 180}

\* C4: split_polygon raises NotImplementedError, returning nothing, exactly
\* when both meridians are marked; with no mark the polygon is passed on
\* uncut; with one mark it is cut along the line from (m,-90) to (m,90),
\* every fragment lying on one side of m.
C4_MeridianSelection ==
    Looped =>
        /\ frame.exc = "NotImplementedError" <=> C4_Marks = {-180, 180}
        /\ frame.exc = "NotImplementedError" =>
              pc = "raised" /\ err = "NotImplementedError" /\ frame.geo_polygons = <<>>
        /\ C4_Marks = {} =>
              frame.splitter = <<>> /\ frame.split_polygons = <<frame._polygon>>
        /\ \A m \in {-180, 180} : C4_Marks = {m} =>
              /\ frame.splitter = << <<m, -90>>, <<m, 90>> >>
              /\ \A i \in DOMAIN frame.split_polygons :
                    \/ bounds(frame.split_polygons[i]).maxx <= m
                    \/ bounds(frame.split_polygons[i]).minx >= m

\* C4's case: an in-range polygon marked both meridians and the call raised
C4_Witness ==
    /\ Looped /\ InRange(frame._polygon)
    /\ C4_Marks = {-180, 180}
    /\ pc = "raised"

\* C5: split_polygon with validate = True raises ValueError exactly when
\* some longitude of the input has absolute value above 180.
C5_ValidateIffOutOfRange ==
    (entry = "split_polygon" /\ validate /\ pc \in {"done", "raised"}) =>
        (err = "ValueError" <=> ~InRange(geometry.polys[1]))

\* the longitude width of a collection
C6_Width(geoms) ==
    SetMax({SetMax(Range(geoms[i][1])) : i \in DOMAIN geoms})
    - SetMin({SetMin(Range(geoms[i][1])) : i \in DOMAIN geoms})

\* C6: wrap_polygons' candidate has the fragments of its input in order,
\* those with minLon < 0 translated by +360 and the others untouched; the
\* candidate is returned if it is strictly narrower than the input, and the
\* input otherwise; what is returned is never wider than the input.
C6_WrapPolygons ==
    (entry = "splitter" /\ pc = "done") =>
        /\ Len(transformed) = Len(split_result)
        /\ \A i \in DOMAIN split_result :
              transformed[i] =
                 IF SetMin(Range(split_result[i][1])) < 0
                 THEN translate(split_result[i], 360) ELSE split_result[i]
        /\ result = IF C6_Width(transformed) < C6_Width(split_result)
                    THEN transformed ELSE split_result
        /\ C6_Width(result) <= C6_Width(split_result)

\* C6's case: two fragments on either side of the antimeridian, and the
\* narrower candidate was chosen
C6_Witness ==
    /\ entry = "splitter" /\ pc = "done"
    /\ Len(split_result) = 2
    /\ result = transformed
    /\ transformed # split_result
    /\ C6_Width(split_result) = 360
    /\ C6_Width(result) = 20

\* C7: running splitter on what splitter returned for an in-range input
\* succeeds and returns the same collection.
C7_Idempotent ==
    (run = 2 /\ pc \in {"done", "raised"}
     /\ \A i \in DOMAIN first.geometry.polys : InRange(first.geometry.polys[i]))
    => (pc = "done" /\ result = first.result)

\* C8 as stated: every longitude of what splitter returns for an in-range
\* input lies in [-180,180].
C8_ResultInRange ==
    (entry = "splitter" /\ run = 1 /\ pc = "done"
     /\ \A i \in DOMAIN geometry.polys : InRange(geometry.polys[i]))
    => \A i \in DOMAIN result : InRange(result[i])

\* C8 amended: for an in-range input, every longitude of the collection
\* handed to wrap_polygons lies in [-180,180]; every fragment splitter
\* returns is that collection's fragment unchanged or translated by +360, so
\* its longitudes lie in [-180,540], and in [-180,180] when wrap_polygons
\* keeps its input.
C8_ResultWrapped ==
    (entry = "splitter" /\ run = 1 /\ pc = "done"
     /\ \A i \in DOMAIN geometry.polys : InRange(geometry.polys[i]))
    => /\ \A i \in DOMAIN split_result : InRange(split_result[i])
       /\ Len(result) = Len(split_result)
       /\ \A i \in DOMAIN result :
             /\ result[i] \in {split_result[i], translate(split_result[i], 360)}
             /\ LonsWithin(result[i], -180, 540)
       /\ result = split_result => \A i \in DOMAIN result : InRange(result[i])

\* C8's case: the input was cut and wrap_polygons chose the shifted candidate
C8_Witness ==
    /\ entry = "splitter" /\ run = 1 /\ pc = "done"
    /\ \A i \in DOMAIN geometry.polys : InRange(geometry.polys[i])
    /\ geometry.tag = "Polygon"
    /\ Len(frame.split_polygons) = 2
    /\ result # split_result
    /\ \E i \in DOMAIN result : ~InRange(result[i])

\* the hole's bounds before the alignment step
C9_Before(h) ==
    [minx |-> frame.norm.rings[h].ring_minx - frame.norm.rings[h].xoff,
     maxx |-> frame.norm.rings[h].ring_maxx - frame.norm.rings[h].xoff]

C9_ShellSpan == frame.norm.rings[1].ring_maxx - frame.norm.rings[1].ring_minx

\* after the alignment the hole's recorded bounds lie within the shell's and
\* are the bounds of its vertices, and it was translated at most once
C9_Aligned(h) ==
    /\ frame.norm.rings[h].ring_minx >= frame.norm.rings[1].ring_minx
    /\ frame.norm.rings[h].ring_maxx <= frame.norm.rings[1].ring_maxx
    /\ frame.norm.rings[h].ring_minx = SetMin(Range(frame.norm.rings[h].ring))
    /\ frame.norm.rings[h].ring_maxx = SetMax(Range(frame.norm.rings[h].ring))
    /\ frame.norm.rings[h].xoff \in {-360, 0, 360}

\* C9 as stated: if the shell spans less than 360 degrees and every
\* longitude of a hole is congruent modulo 360 to a value within the
\* shell's normalized bounds, the hole is aligned within the shell.
C9_HoleContained ==
    (Looped /\ InRange(frame._polygon) /\ C9_ShellSpan < 360) =>
        \A h \in 2..Len(frame._polygon) :
            (\A x \in Range(frame._polygon[h]) : \E k \in -2..2 :
                /\ frame.norm.rings[1].ring_minx <= x + 360 * k
                /\ x + 360 * k <= frame.norm.rings[1].ring_maxx)
            => C9_Aligned(h)

\* C9 amended: if the shell spans less than 360 degrees and the hole's
\* normalized bounds, moved by one common multiple of 360, lie within the
\* shell's normalized bounds, the hole is aligned within the shell.
C9_HoleContainedAmended ==
    (Looped /\ InRange(frame._polygon) /\ C9_ShellSpan < 360) =>
        \A h \in 2..Len(frame._polygon) :
            (\E k \in -2..2 :
                /\ frame.norm.rings[1].ring_minx <= C9_Before(h).minx + 360 * k
                /\ C9_Before(h).maxx + 360 * k <= frame.norm.rings[1].ring_maxx)
            => C9_Aligned(h)

\* C9's case: a hole that crosses the antimeridian was translated into the
\* frame of a shell that crosses it too
C9_Witness ==
    /\ Looped /\ InRange(frame._polygon) /\ C9_ShellSpan < 360
    /\ Len(frame._polygon) > 1
    /\ frame.norm.rings[1].crossings > 0
    /\ frame.norm.rings[2].crossings > 0
    /\ frame.norm.rings[2].xoff # 0
    /\ C9_Aligned(2)

\* C10: splitter on a geometry that is neither a Polygon nor a MultiPolygon
\* fails with ValueError.
C10_OtherIsInvalidInput ==
    (entry = "splitter" /\ geometry.tag \notin {"Polygon", "MultiPolygon"}
     /\ pc # "splitter")
    => (pc = "raised" /\ err = "ValueError")

====
